---- MODULE Spec2Model ----
(***************************************************************************)
(* Model of the Flap channel runtime, src/runtime/channel.c.               *)
(*                                                                         *)
(* One Channel shared by a fixed set of OS threads.  Every thread          *)
(* repeatedly calls channel_send, channel_recv or channel_close.  Each     *)
(* action below is one statement (or one small group of statements) of     *)
(* the C code executed by one thread; the pthread mutex and the two        *)
(* condition variables are modelled explicitly, so every interleaving      *)
(* the mutex permits is explored, including the states in which a thread   *)
(* is half way through a critical section.                                 *)
(***************************************************************************)
EXTENDS Integers, Sequences, FiniteSets

(* ---- bounds of the model ---------------------------------------------- *)
NumThreads == 3
MaxCapacity == 2
MaxCalls == 5

(* ---- program constants -------------------------------------------------- *)
CHANNEL_OPEN == 0
CHANNEL_CLOSED == 1

Threads == 1..NumThreads
NoThread == 0
NULL == << >>

VARIABLES
    buffer,      \* ch->buffer: NULL, or a function 0..n-1 -> double
    read_idx,    \* ch->read_idx
    write_idx,   \* ch->write_idx
    count,       \* ch->count
    capacity,    \* ch->capacity
    closed,      \* ch->closed
    mutex,       \* ch->mutex: the owning thread, or NoThread
    cond_send,   \* ch->cond_send: the threads blocked in pthread_cond_wait on it
    cond_recv,   \* ch->cond_recv: likewise
    pc,          \* per thread: the statement it executes next
    value,       \* per thread: the parameter `value` of send, the local of recv
    deposited,   \* history: the values written into the buffer, in order
    received,    \* history: the values read out of the buffer, in order
    sendRet,     \* history: the pairs <<v, r>>, one per send of v that returned r
    drained,     \* history: some channel_recv returned 0.0 for closed and empty
    queuedAtClose, \* history: the values queued when closed was first set
    sends,       \* number of channel_send calls made so far
    calls,       \* number of calls made so far (bounded by MaxCalls)
    handle,      \* what channel_create returned: "none" before it is called,
                 \* "null", "ch" (a Channel), "freed" after channel_destroy
    ret          \* per thread: <<the call, the value>> it last returned from,
                 \* for channel_is_closed and for the calls on a null handle

chan == <<buffer, read_idx, write_idx, count, capacity, closed>>
sync == <<mutex, cond_send, cond_recv>>
hist == <<deposited, received, sendRet, drained, queuedAtClose>>
vars == <<buffer, read_idx, write_idx, count, capacity, closed, mutex,
          cond_send, cond_recv, pc, value, deposited, received, sendRet,
          drained, queuedAtClose, sends, calls, handle, ret>>
life == <<handle, ret>>

(* ---- helpers ------------------------------------------------------------ *)

\* The values the channel currently holds, oldest first, as the code reads
\* them: buffer[read_idx], buffer[(read_idx+1) % capacity], ... for a
\* buffered channel, buffer[0] for an unbuffered one.
Queued ==
    IF capacity > 0
    THEN [i \in 1..count |-> buffer[(read_idx + i - 1) % capacity]]
    ELSE IF count > 0 /\ buffer # NULL THEN <<buffer[0]>> ELSE << >>

Range(s) == {s[i] : i \in 1..Len(s)}

IsPrefix(s, t) == Len(s) <= Len(t) /\ \A i \in 1..Len(s) : s[i] = t[i]

\* pthread_mutex_lock succeeds only when nobody holds the mutex.
pthread_mutex_lock(self) == mutex = NoThread /\ mutex' = self

\* The statements executed while waiting inside pthread_cond_wait.
WaitPcs == {"send_buf_wait", "send_slot_wait", "send_handoff_wait", "recv_wait"}

\* Where a thread re-evaluates its while guard after pthread_cond_wait returns.
LoopOf(p) ==
    CASE p = "send_buf_wait" -> "send_buf_while"
      [] p = "send_slot_wait" -> "send_slot_while"
      [] p = "send_handoff_wait" -> "send_handoff_while"
      [] p = "recv_wait" -> "recv_while"

\* A thread is parked when it sits in a condition variable's wait set.
Parked(self) == self \in cond_send \/ self \in cond_recv

(* ---- channel_create ------------------------------------------------------ *)

\* The state after channel_create(capacity) returned a channel.  The ring of
\* a buffered channel comes from malloc, so its contents are indeterminate:
\* every slot holds the same arbitrary value g.
channel_create(cap, g) ==
    /\ buffer = (IF cap > 0 THEN [i \in 0..cap-1 |-> g] ELSE NULL)
    /\ read_idx = 0
    /\ write_idx = 0
    /\ count = 0
    /\ capacity = cap
    /\ closed = CHANNEL_OPEN
    /\ mutex = NoThread
    /\ cond_send = {}
    /\ cond_recv = {}

Init ==
    /\ \E cap \in 0..MaxCapacity : \E g \in {0, 1} : channel_create(cap, g)
    /\ pc = [t \in Threads |-> "idle"]
    /\ value = [t \in Threads |-> 0]
    /\ deposited = << >>
    /\ received = << >>
    /\ sendRet = {}
    /\ drained = FALSE
    /\ queuedAtClose = << >>
    /\ sends = 0
    /\ calls = 0
    /\ handle = "ch"
    /\ ret = [t \in Threads |-> <<"none", 0>>]

(* ---- condition variables -------------------------------------------------- *)

\* pthread_cond_wait(cond, &ch->mutex): release the mutex and join the wait set.
pthread_cond_wait(self, cond, waitpc) ==
    /\ mutex' = NoThread
    /\ IF cond = "send"
       THEN cond_send' = cond_send \cup {self} /\ UNCHANGED cond_recv
       ELSE cond_recv' = cond_recv \cup {self} /\ UNCHANGED cond_send
    /\ pc' = [pc EXCEPT ![self] = waitpc]

\* pthread_cond_signal: wake one waiter, if there is one.
signal_send ==
    IF cond_send = {} THEN cond_send' = cond_send
    ELSE \E w \in cond_send : cond_send' = cond_send \ {w}

signal_recv ==
    IF cond_recv = {} THEN cond_recv' = cond_recv
    ELSE \E w \in cond_recv : cond_recv' = cond_recv \ {w}

\* Mutant of cond_wait_return: `if` in place of `while` at the buffered send's
\* wait, whose guard is then not evaluated again after the wait.
AfterLoopOf(p) ==
    IF p = "send_buf_wait" THEN "send_buf_closed" ELSE LoopOf(p)

cond_wait_return_if(self) ==
    /\ pc[self] \in WaitPcs
    /\ ~Parked(self)
    /\ pthread_mutex_lock(self)
    /\ pc' = [pc EXCEPT ![self] = AfterLoopOf(pc[self])]
    /\ UNCHANGED <<chan, cond_send, cond_recv, value, hist, sends, calls, life>>

\* Mutant of cond_wait_return: `if` in place of `while` at the receive's wait.
cond_wait_return_recv_if(self) ==
    /\ pc[self] \in WaitPcs
    /\ ~Parked(self)
    /\ pthread_mutex_lock(self)
    /\ pc' = [pc EXCEPT ![self] =
                IF pc[self] = "recv_wait" THEN "recv_check_closed"
                ELSE LoopOf(pc[self])]
    /\ UNCHANGED <<chan, cond_send, cond_recv, value, hist, sends, calls, life>>

\* pthread_cond_wait returning: the thread was taken out of the wait set, and
\* re-acquires the mutex before it re-evaluates the guard of its while loop.
cond_wait_return(self) ==
    /\ pc[self] \in WaitPcs
    /\ ~Parked(self)
    /\ pthread_mutex_lock(self)
    /\ pc' = [pc EXCEPT ![self] = LoopOf(pc[self])]
    /\ UNCHANGED <<chan, cond_send, cond_recv, value, hist, sends, calls, life>>

\* POSIX permits pthread_cond_wait to wake without a signal.
spurious_wakeup(self) ==
    /\ Parked(self)
    /\ cond_send' = cond_send \ {self}
    /\ cond_recv' = cond_recv \ {self}
    /\ UNCHANGED <<chan, mutex, pc, value, hist, sends, calls, life>>

(* ---- channel_send --------------------------------------------------------- *)

\* A thread calls channel_send(ch, v) with a non-null handle (the test at line
\* 52 fails); v is fresh, so
\* that every value in the histories names the send that produced it.
send_call(self) ==
    /\ handle = "ch"
    /\ pc[self] = "idle"
    /\ calls < MaxCalls
    /\ calls' = calls + 1
    /\ sends' = sends + 1
    /\ value' = [value EXCEPT ![self] = sends + 1]
    /\ pc' = [pc EXCEPT ![self] = "send_lock"]
    /\ UNCHANGED <<chan, sync, hist, life>>

\* return r from channel_send, having unlocked the mutex.
send_return(self, r) ==
    /\ mutex' = NoThread
    /\ sendRet' = sendRet \cup {<<value[self], r>>}
    /\ value' = [value EXCEPT ![self] = 0]
    /\ pc' = [pc EXCEPT ![self] = "idle"]

\* pthread_mutex_lock(&ch->mutex)
send_lock(self) ==
    /\ pc[self] = "send_lock"
    /\ pthread_mutex_lock(self)
    /\ pc' = [pc EXCEPT ![self] = "send_check_closed"]
    /\ UNCHANGED <<chan, cond_send, cond_recv, value, hist, sends, calls, life>>

\* Mutant of send_check_closed: the closed branch returns 0.
send_check_closed_ok(self) ==
    /\ pc[self] = "send_check_closed"
    /\ IF closed # 0
       THEN /\ send_return(self, 0)
            /\ UNCHANGED <<chan, cond_send, cond_recv, deposited, received,
                           drained, queuedAtClose, sends, calls, life>>
       ELSE /\ pc' = [pc EXCEPT ![self] =
                        IF capacity > 0 THEN "send_buf_while" ELSE "send_slot_if"]
            /\ UNCHANGED <<chan, sync, value, hist, sends, calls, life>>

\* if (ch->closed) { unlock; return -1; }   then   if (ch->capacity > 0)
send_check_closed(self) ==
    /\ pc[self] = "send_check_closed"
    /\ IF closed # 0
       THEN /\ send_return(self, -1)
            /\ UNCHANGED <<chan, cond_send, cond_recv, deposited, received,
                           drained, queuedAtClose, sends, calls, life>>
       ELSE /\ pc' = [pc EXCEPT ![self] =
                        IF capacity > 0 THEN "send_buf_while" ELSE "send_slot_if"]
            /\ UNCHANGED <<chan, sync, value, hist, sends, calls, life>>

\* while (ch->count >= ch->capacity && !ch->closed) pthread_cond_wait(cond_send)
send_buf_while(self) ==
    /\ pc[self] = "send_buf_while"
    /\ IF count >= capacity /\ closed = 0
       THEN pthread_cond_wait(self, "send", "send_buf_wait")
       ELSE /\ pc' = [pc EXCEPT ![self] = "send_buf_closed"]
            /\ UNCHANGED sync
    /\ UNCHANGED <<chan, value, hist, sends, calls, life>>

\* Mutant of send_buf_closed: closed is not tested again after the wait.
send_buf_closed_skip(self) ==
    /\ pc[self] = "send_buf_closed"
    /\ pc' = [pc EXCEPT ![self] = "send_buf_put"]
    /\ UNCHANGED <<chan, sync, value, hist, sends, calls, life>>

\* if (ch->closed) { unlock; return -1; }
send_buf_closed(self) ==
    /\ pc[self] = "send_buf_closed"
    /\ IF closed # 0
       THEN /\ send_return(self, -1)
            /\ UNCHANGED <<chan, cond_send, cond_recv, deposited, received,
                           drained, queuedAtClose, sends, calls, life>>
       ELSE /\ pc' = [pc EXCEPT ![self] = "send_buf_put"]
            /\ UNCHANGED <<chan, sync, value, hist, sends, calls, life>>

\* ch->buffer[ch->write_idx] = value;
\* With ch->buffer == NULL (channel_create's malloc of the ring failed) the
\* store goes through a null pointer: the process dies of the fault, every
\* thread with it.
send_buf_put(self) ==
    /\ pc[self] = "send_buf_put"
    /\ IF buffer = NULL
       THEN /\ pc' = [t \in Threads |-> "crashed"]
            /\ UNCHANGED <<buffer, deposited>>
       ELSE /\ buffer' = [buffer EXCEPT ![write_idx] = value[self]]
            /\ deposited' = Append(deposited, value[self])
            /\ pc' = [pc EXCEPT ![self] = "send_buf_idx"]
    /\ UNCHANGED <<read_idx, write_idx, count, capacity, closed, sync, value,
                   received, sendRet, drained, queuedAtClose, sends, calls, life>>

\* Mutant of send_buf_idx: write_idx advances without the modulo.
send_buf_idx_nowrap(self) ==
    /\ pc[self] = "send_buf_idx"
    /\ write_idx' = write_idx + 1
    /\ pc' = [pc EXCEPT ![self] = "send_buf_count"]
    /\ UNCHANGED <<buffer, read_idx, count, capacity, closed, sync, value,
                   hist, sends, calls, life>>

\* ch->write_idx = (ch->write_idx + 1) % ch->capacity;
send_buf_idx(self) ==
    /\ pc[self] = "send_buf_idx"
    /\ write_idx' = (write_idx + 1) % capacity
    /\ pc' = [pc EXCEPT ![self] = "send_buf_count"]
    /\ UNCHANGED <<buffer, read_idx, count, capacity, closed, sync, value,
                   hist, sends, calls, life>>

\* Mutant of send_buf_count: the increment is missing.
send_buf_count_missing(self) ==
    /\ pc[self] = "send_buf_count"
    /\ pc' = [pc EXCEPT ![self] = "send_buf_signal"]
    /\ UNCHANGED <<chan, sync, value, hist, sends, calls, life>>

\* ch->count++;
send_buf_count(self) ==
    /\ pc[self] = "send_buf_count"
    /\ count' = count + 1
    /\ pc' = [pc EXCEPT ![self] = "send_buf_signal"]
    /\ UNCHANGED <<buffer, read_idx, write_idx, capacity, closed, sync, value,
                   hist, sends, calls, life>>

\* pthread_cond_signal(&ch->cond_recv);
send_buf_signal(self) ==
    /\ pc[self] = "send_buf_signal"
    /\ signal_recv
    /\ pc' = [pc EXCEPT ![self] = "send_unlock"]
    /\ UNCHANGED <<chan, mutex, cond_send, value, hist, sends, calls, life>>

\* Mutant of send_slot_if: the sender does not wait for the slot to be empty.
send_slot_if_skip(self) ==
    /\ pc[self] = "send_slot_if"
    /\ pc' = [pc EXCEPT ![self] = "send_slot_closed"]
    /\ UNCHANGED <<chan, sync, value, hist, sends, calls, life>>

\* if (ch->count > 0)
send_slot_if(self) ==
    /\ pc[self] = "send_slot_if"
    /\ pc' = [pc EXCEPT ![self] =
                IF count > 0 THEN "send_slot_while" ELSE "send_slot_closed"]
    /\ UNCHANGED <<chan, sync, value, hist, sends, calls, life>>

\* while (ch->count > 0 && !ch->closed) pthread_cond_wait(cond_send)
send_slot_while(self) ==
    /\ pc[self] = "send_slot_while"
    /\ IF count > 0 /\ closed = 0
       THEN pthread_cond_wait(self, "send", "send_slot_wait")
       ELSE /\ pc' = [pc EXCEPT ![self] = "send_slot_closed"]
            /\ UNCHANGED sync
    /\ UNCHANGED <<chan, value, hist, sends, calls, life>>

\* if (ch->closed) { unlock; return -1; }
send_slot_closed(self) ==
    /\ pc[self] = "send_slot_closed"
    /\ IF closed # 0
       THEN /\ send_return(self, -1)
            /\ UNCHANGED <<chan, cond_send, cond_recv, deposited, received,
                           drained, queuedAtClose, sends, calls, life>>
       ELSE /\ pc' = [pc EXCEPT ![self] = "send_alloc"]
            /\ UNCHANGED <<chan, sync, value, hist, sends, calls, life>>

\* if (!ch->buffer) ch->buffer = malloc(sizeof(double));
\* The fresh slot is indeterminate until the next statement writes it.
send_alloc(self) ==
    /\ pc[self] = "send_alloc"
    /\ IF buffer = NULL
       THEN \E g \in {0, 1} : buffer' = [i \in {0} |-> g]
       ELSE buffer' = buffer
    /\ pc' = [pc EXCEPT ![self] = "send_handoff_put"]
    /\ UNCHANGED <<read_idx, write_idx, count, capacity, closed, sync, value,
                   hist, sends, calls, life>>

\* ch->buffer[0] = value;
send_handoff_put(self) ==
    /\ pc[self] = "send_handoff_put"
    /\ buffer' = [buffer EXCEPT ![0] = value[self]]
    /\ deposited' = Append(deposited, value[self])
    /\ pc' = [pc EXCEPT ![self] = "send_handoff_count"]
    /\ UNCHANGED <<read_idx, write_idx, count, capacity, closed, sync, value,
                   received, sendRet, drained, queuedAtClose, sends, calls, life>>

\* ch->count = 1;
send_handoff_count(self) ==
    /\ pc[self] = "send_handoff_count"
    /\ count' = 1
    /\ pc' = [pc EXCEPT ![self] = "send_handoff_signal"]
    /\ UNCHANGED <<buffer, read_idx, write_idx, capacity, closed, sync, value,
                   hist, sends, calls, life>>

\* pthread_cond_signal(&ch->cond_recv);
send_handoff_signal(self) ==
    /\ pc[self] = "send_handoff_signal"
    /\ signal_recv
    /\ pc' = [pc EXCEPT ![self] = "send_handoff_while"]
    /\ UNCHANGED <<chan, mutex, cond_send, value, hist, sends, calls, life>>

\* while (ch->count > 0 && !ch->closed) pthread_cond_wait(cond_send)
send_handoff_while(self) ==
    /\ pc[self] = "send_handoff_while"
    /\ IF count > 0 /\ closed = 0
       THEN pthread_cond_wait(self, "send", "send_handoff_wait")
       ELSE /\ pc' = [pc EXCEPT ![self] = "send_unlock"]
            /\ UNCHANGED sync
    /\ UNCHANGED <<chan, value, hist, sends, calls, life>>

\* Mutant of send_unlock: return -1 when the channel is closed by now.
send_unlock_closed(self) ==
    /\ pc[self] = "send_unlock"
    /\ send_return(self, IF closed # 0 THEN -1 ELSE 0)
    /\ UNCHANGED <<chan, cond_send, cond_recv, deposited, received, drained,
                   queuedAtClose, sends, calls, life>>

\* pthread_mutex_unlock(&ch->mutex); return 0;
send_unlock(self) ==
    /\ pc[self] = "send_unlock"
    /\ send_return(self, 0)
    /\ UNCHANGED <<chan, cond_send, cond_recv, deposited, received, drained,
                   queuedAtClose, sends, calls, life>>

channel_send(self) ==
    \/ send_call(self)
    \/ send_lock(self)
    \/ send_check_closed(self)
    \/ send_buf_while(self)
    \/ send_buf_closed(self)
    \/ send_buf_put(self)
    \/ send_buf_idx(self)
    \/ send_buf_count(self)
    \/ send_buf_signal(self)
    \/ send_slot_if(self)
    \/ send_slot_while(self)
    \/ send_slot_closed(self)
    \/ send_alloc(self)
    \/ send_handoff_put(self)
    \/ send_handoff_count(self)
    \/ send_handoff_signal(self)
    \/ send_handoff_while(self)
    \/ send_unlock(self)

(* ---- channel_recv --------------------------------------------------------- *)

\* A thread calls channel_recv(ch) with a non-null handle.
recv_call(self) ==
    /\ handle = "ch"
    /\ pc[self] = "idle"
    /\ calls < MaxCalls
    /\ calls' = calls + 1
    /\ pc' = [pc EXCEPT ![self] = "recv_lock"]
    /\ UNCHANGED <<chan, sync, value, hist, sends, life>>

\* pthread_mutex_lock(&ch->mutex)
recv_lock(self) ==
    /\ pc[self] = "recv_lock"
    /\ pthread_mutex_lock(self)
    /\ pc' = [pc EXCEPT ![self] = "recv_while"]
    /\ UNCHANGED <<chan, cond_send, cond_recv, value, hist, sends, calls, life>>

\* while (ch->count == 0 && !ch->closed) pthread_cond_wait(cond_recv)
recv_while(self) ==
    /\ pc[self] = "recv_while"
    /\ IF count = 0 /\ closed = 0
       THEN pthread_cond_wait(self, "recv", "recv_wait")
       ELSE /\ pc' = [pc EXCEPT ![self] = "recv_check_closed"]
            /\ UNCHANGED sync
    /\ UNCHANGED <<chan, value, hist, sends, calls, life>>

\* Mutant of recv_check_closed: a closed channel yields 0.0 whatever count is.
recv_check_closed_any(self) ==
    /\ pc[self] = "recv_check_closed"
    /\ IF closed # 0
       THEN /\ mutex' = NoThread
            /\ drained' = TRUE
            /\ pc' = [pc EXCEPT ![self] = "idle"]
            /\ UNCHANGED <<chan, cond_send, cond_recv, value, deposited,
                           received, sendRet, queuedAtClose, sends, calls, life>>
       ELSE /\ pc' = [pc EXCEPT ![self] =
                        IF capacity > 0 THEN "recv_buf_get" ELSE "recv_handoff_get"]
            /\ UNCHANGED <<chan, sync, value, hist, sends, calls, life>>

\* if (ch->count == 0 && ch->closed) { unlock; return 0.0; }
\* then   if (ch->capacity > 0)
recv_check_closed(self) ==
    /\ pc[self] = "recv_check_closed"
    /\ IF count = 0 /\ closed # 0
       THEN /\ mutex' = NoThread
            /\ drained' = TRUE
            /\ pc' = [pc EXCEPT ![self] = "idle"]
            /\ UNCHANGED <<chan, cond_send, cond_recv, value, deposited,
                           received, sendRet, queuedAtClose, sends, calls, life>>
       ELSE /\ pc' = [pc EXCEPT ![self] =
                        IF capacity > 0 THEN "recv_buf_get" ELSE "recv_handoff_get"]
            /\ UNCHANGED <<chan, sync, value, hist, sends, calls, life>>

\* value = ch->buffer[ch->read_idx];
recv_buf_get(self) ==
    /\ pc[self] = "recv_buf_get"
    /\ value' = [value EXCEPT ![self] = buffer[read_idx]]
    /\ received' = Append(received, buffer[read_idx])
    /\ pc' = [pc EXCEPT ![self] = "recv_buf_idx"]
    /\ UNCHANGED <<chan, sync, deposited, sendRet, drained, queuedAtClose,
                   sends, calls, life>>

\* Mutant of recv_buf_idx: read_idx does not advance.
recv_buf_idx_stuck(self) ==
    /\ pc[self] = "recv_buf_idx"
    /\ pc' = [pc EXCEPT ![self] = "recv_buf_count"]
    /\ UNCHANGED <<chan, sync, value, hist, sends, calls, life>>

\* ch->read_idx = (ch->read_idx + 1) % ch->capacity;
recv_buf_idx(self) ==
    /\ pc[self] = "recv_buf_idx"
    /\ read_idx' = (read_idx + 1) % capacity
    /\ pc' = [pc EXCEPT ![self] = "recv_buf_count"]
    /\ UNCHANGED <<buffer, write_idx, count, capacity, closed, sync, value,
                   hist, sends, calls, life>>

\* ch->count--;
recv_buf_count(self) ==
    /\ pc[self] = "recv_buf_count"
    /\ count' = count - 1
    /\ pc' = [pc EXCEPT ![self] = "recv_signal"]
    /\ UNCHANGED <<buffer, read_idx, write_idx, capacity, closed, sync, value,
                   hist, sends, calls, life>>

\* value = ch->buffer[0];
recv_handoff_get(self) ==
    /\ pc[self] = "recv_handoff_get"
    /\ value' = [value EXCEPT ![self] = buffer[0]]
    /\ received' = Append(received, buffer[0])
    /\ pc' = [pc EXCEPT ![self] = "recv_handoff_count"]
    /\ UNCHANGED <<chan, sync, deposited, sendRet, drained, queuedAtClose,
                   sends, calls, life>>

\* ch->count = 0;
recv_handoff_count(self) ==
    /\ pc[self] = "recv_handoff_count"
    /\ count' = 0
    /\ pc' = [pc EXCEPT ![self] = "recv_signal"]
    /\ UNCHANGED <<buffer, read_idx, write_idx, capacity, closed, sync, value,
                   hist, sends, calls, life>>

\* Mutant of recv_signal: the receive does not signal cond_send.
recv_signal_missing(self) ==
    /\ pc[self] = "recv_signal"
    /\ pc' = [pc EXCEPT ![self] = "recv_unlock"]
    /\ UNCHANGED <<chan, sync, value, hist, sends, calls, life>>

\* pthread_cond_signal(&ch->cond_send);   (the same statement on both paths)
recv_signal(self) ==
    /\ pc[self] = "recv_signal"
    /\ signal_send
    /\ pc' = [pc EXCEPT ![self] = "recv_unlock"]
    /\ UNCHANGED <<chan, mutex, cond_recv, value, hist, sends, calls, life>>

\* pthread_mutex_unlock(&ch->mutex); return value;
recv_unlock(self) ==
    /\ pc[self] = "recv_unlock"
    /\ mutex' = NoThread
    /\ value' = [value EXCEPT ![self] = 0]
    /\ pc' = [pc EXCEPT ![self] = "idle"]
    /\ UNCHANGED <<chan, cond_send, cond_recv, hist, sends, calls, life>>

channel_recv(self) ==
    \/ recv_call(self)
    \/ recv_lock(self)
    \/ recv_while(self)
    \/ recv_check_closed(self)
    \/ recv_buf_get(self)
    \/ recv_buf_idx(self)
    \/ recv_buf_count(self)
    \/ recv_handoff_get(self)
    \/ recv_handoff_count(self)
    \/ recv_signal(self)
    \/ recv_unlock(self)

(* ---- channel_close -------------------------------------------------------- *)

\* A thread calls channel_close(ch) with a non-null handle.
close_call(self) ==
    /\ handle = "ch"
    /\ pc[self] = "idle"
    /\ calls < MaxCalls
    /\ calls' = calls + 1
    /\ pc' = [pc EXCEPT ![self] = "close_lock"]
    /\ UNCHANGED <<chan, sync, value, hist, sends, life>>

\* pthread_mutex_lock(&ch->mutex)
close_lock(self) ==
    /\ pc[self] = "close_lock"
    /\ pthread_mutex_lock(self)
    /\ pc' = [pc EXCEPT ![self] = "close_set"]
    /\ UNCHANGED <<chan, cond_send, cond_recv, value, hist, sends, calls, life>>

\* Mutant of close_set: the flag is toggled, closing twice reopens.
close_set_toggle(self) ==
    /\ pc[self] = "close_set"
    /\ closed' = 1 - closed
    /\ queuedAtClose' = (IF closed = 0 THEN Queued ELSE queuedAtClose)
    /\ pc' = [pc EXCEPT ![self] = "close_broadcast_send"]
    /\ UNCHANGED <<buffer, read_idx, write_idx, count, capacity, sync, value,
                   deposited, received, sendRet, drained, sends, calls, life>>

\* Mutant of close_set: close discards what is queued.
close_set_discard(self) ==
    /\ pc[self] = "close_set"
    /\ closed' = CHANNEL_CLOSED
    /\ count' = 0
    /\ queuedAtClose' = (IF closed = 0 THEN Queued ELSE queuedAtClose)
    /\ pc' = [pc EXCEPT ![self] = "close_broadcast_send"]
    /\ UNCHANGED <<buffer, read_idx, write_idx, capacity, sync, value,
                   deposited, received, sendRet, drained, sends, calls, life>>

\* ch->closed = CHANNEL_CLOSED;
close_set(self) ==
    /\ pc[self] = "close_set"
    /\ closed' = CHANNEL_CLOSED
    /\ queuedAtClose' = (IF closed = 0 THEN Queued ELSE queuedAtClose)
    /\ pc' = [pc EXCEPT ![self] = "close_broadcast_send"]
    /\ UNCHANGED <<buffer, read_idx, write_idx, count, capacity, sync, value,
                   deposited, received, sendRet, drained, sends, calls, life>>

\* Mutant of close_broadcast_send: pthread_cond_signal, one waiter only.
close_broadcast_send_signal(self) ==
    /\ pc[self] = "close_broadcast_send"
    /\ signal_send
    /\ pc' = [pc EXCEPT ![self] = "close_broadcast_recv"]
    /\ UNCHANGED <<chan, mutex, cond_recv, value, hist, sends, calls, life>>

\* pthread_cond_broadcast(&ch->cond_send);
close_broadcast_send(self) ==
    /\ pc[self] = "close_broadcast_send"
    /\ cond_send' = {}
    /\ pc' = [pc EXCEPT ![self] = "close_broadcast_recv"]
    /\ UNCHANGED <<chan, mutex, cond_recv, value, hist, sends, calls, life>>

\* pthread_cond_broadcast(&ch->cond_recv);
close_broadcast_recv(self) ==
    /\ pc[self] = "close_broadcast_recv"
    /\ cond_recv' = {}
    /\ pc' = [pc EXCEPT ![self] = "close_unlock"]
    /\ UNCHANGED <<chan, mutex, cond_send, value, hist, sends, calls, life>>

\* pthread_mutex_unlock(&ch->mutex);
close_unlock(self) ==
    /\ pc[self] = "close_unlock"
    /\ mutex' = NoThread
    /\ pc' = [pc EXCEPT ![self] = "idle"]
    /\ UNCHANGED <<chan, cond_send, cond_recv, value, hist, sends, calls, life>>

channel_close(self) ==
    \/ close_call(self)
    \/ close_lock(self)
    \/ close_set(self)
    \/ close_broadcast_send(self)
    \/ close_broadcast_recv(self)
    \/ close_unlock(self)

(* ---- the specifications --------------------------------------------------- *)

Next ==
    \E self \in Threads :
        \/ channel_send(self)
        \/ channel_recv(self)
        \/ channel_close(self)
        \/ cond_wait_return(self)
        \/ spurious_wakeup(self)

Spec == Init /\ [][Next]_vars

\* A step of a call in progress: everything a thread does except entering a
\* new call and waking without a signal.
Progress(self) ==
    \/ (channel_send(self) /\ pc[self] # "idle")
    \/ (channel_recv(self) /\ pc[self] # "idle")
    \/ (channel_close(self) /\ pc[self] # "idle")
    \/ cond_wait_return(self)

\* Fair scheduling: a thread that can run again and again does run, so it is
\* not starved of the mutex by the others (strong fairness, because the step
\* that takes the mutex is enabled only while the mutex is free).  Nothing
\* obliges a thread to start another call, and nothing obliges a spurious
\* wakeup to happen.
FairSpec == Spec /\ \A self \in Threads : SF_vars(Progress(self))

(* ---- the whole life of a handle ------------------------------------------ *)

\* The state before channel_create is called: no Channel exists yet.
LifeInit ==
    /\ buffer = NULL
    /\ read_idx = 0
    /\ write_idx = 0
    /\ count = 0
    /\ capacity = 0
    /\ closed = CHANNEL_OPEN
    /\ mutex = NoThread
    /\ cond_send = {}
    /\ cond_recv = {}
    /\ pc = [t \in Threads |-> "idle"]
    /\ value = [t \in Threads |-> 0]
    /\ deposited = << >>
    /\ received = << >>
    /\ sendRet = {}
    /\ drained = FALSE
    /\ queuedAtClose = << >>
    /\ sends = 0
    /\ calls = 0
    /\ handle = "none"
    /\ ret = [t \in Threads |-> <<"none", 0>>]

\* channel_create(cap), run once before the handle is shared.  got_ch and
\* got_ring say whether the two calls of malloc succeed; g is the
\* indeterminate content of a fresh ring.  Only the first malloc is tested.
create(cap, got_ch, got_ring, g) ==
    /\ handle = "none"
    /\ IF ~got_ch
       THEN /\ handle' = "null"
            /\ UNCHANGED <<chan, sync>>
       ELSE /\ handle' = "ch"
            /\ mutex' = NoThread
            /\ cond_send' = {}
            /\ cond_recv' = {}
            /\ buffer' = (IF cap > 0 /\ got_ring
                          THEN [i \in 0..cap-1 |-> g] ELSE NULL)
            /\ read_idx' = 0
            /\ write_idx' = 0
            /\ count' = 0
            /\ capacity' = cap
            /\ closed' = CHANNEL_OPEN
    /\ UNCHANGED <<pc, value, hist, sends, calls, ret>>

create_call ==
    \E cap \in 0..MaxCapacity : \E got_ch, got_ring \in BOOLEAN :
        \E g \in {0, 1} : create(cap, got_ch, got_ring, g)

\* channel_destroy(ch) on a Channel: the caller guarantees that no other
\* thread still uses the handle, and nobody uses it afterwards.
destroy_call(self) ==
    /\ handle = "ch"
    /\ \A t \in Threads : pc[t] = "idle"
    /\ handle' = "freed"
    /\ buffer' = NULL
    /\ ret' = [ret EXCEPT ![self] = <<"destroy", 0>>]
    /\ UNCHANGED <<read_idx, write_idx, count, capacity, closed, sync, pc,
                   value, hist, sends, calls>>

(* ---- channel_is_closed ------------------------------------------------------ *)

\* A thread calls channel_is_closed(ch) with a non-null handle.
is_closed_call(self) ==
    /\ handle = "ch"
    /\ pc[self] = "idle"
    /\ calls < MaxCalls
    /\ calls' = calls + 1
    /\ pc' = [pc EXCEPT ![self] = "is_closed_lock"]
    /\ UNCHANGED <<chan, sync, value, hist, sends, life>>

\* pthread_mutex_lock(&ch->mutex);
is_closed_lock(self) ==
    /\ pc[self] = "is_closed_lock"
    /\ pthread_mutex_lock(self)
    /\ pc' = [pc EXCEPT ![self] = "is_closed_read"]
    /\ UNCHANGED <<chan, cond_send, cond_recv, value, hist, sends, calls, life>>

\* int closed = ch->closed;
is_closed_read(self) ==
    /\ pc[self] = "is_closed_read"
    /\ value' = [value EXCEPT ![self] = closed]
    /\ pc' = [pc EXCEPT ![self] = "is_closed_unlock"]
    /\ UNCHANGED <<chan, sync, hist, sends, calls, life>>

\* Mutant of is_closed_unlock: return 0, the local is forgotten.
is_closed_unlock_zero(self) ==
    /\ pc[self] = "is_closed_unlock"
    /\ mutex' = NoThread
    /\ ret' = [ret EXCEPT ![self] = <<"is_closed", 0>>]
    /\ value' = [value EXCEPT ![self] = 0]
    /\ pc' = [pc EXCEPT ![self] = "idle"]
    /\ UNCHANGED <<chan, cond_send, cond_recv, hist, sends, calls, handle>>

\* pthread_mutex_unlock(&ch->mutex); return closed;
is_closed_unlock(self) ==
    /\ pc[self] = "is_closed_unlock"
    /\ mutex' = NoThread
    /\ ret' = [ret EXCEPT ![self] = <<"is_closed", value[self]>>]
    /\ value' = [value EXCEPT ![self] = 0]
    /\ pc' = [pc EXCEPT ![self] = "idle"]
    /\ UNCHANGED <<chan, cond_send, cond_recv, hist, sends, calls, handle>>

channel_is_closed(self) ==
    \/ is_closed_call(self)
    \/ is_closed_lock(self)
    \/ is_closed_read(self)
    \/ is_closed_unlock(self)

(* ---- calls on a null handle -------------------------------------------------- *)

\* A call that returns r at once because its handle is null.
null_return(self, op, r) ==
    /\ handle = "null"
    /\ pc[self] = "idle"
    /\ calls < MaxCalls
    /\ calls' = calls + 1
    /\ ret' = [ret EXCEPT ![self] = <<op, r>>]
    /\ UNCHANGED <<chan, sync, pc, value, deposited, received, drained,
                   queuedAtClose, handle>>

\* channel_send: if (!channel) return -1;
send_null(self) ==
    /\ null_return(self, "send", -1)
    /\ sends' = sends + 1
    /\ sendRet' = sendRet \cup {<<sends + 1, -1>>}

\* channel_recv: if (!channel) return 0.0;
recv_null(self) ==
    /\ null_return(self, "recv", 0)
    /\ UNCHANGED <<sends, sendRet>>

\* channel_close: if (!channel) return;
close_null(self) ==
    /\ null_return(self, "close", 0)
    /\ UNCHANGED <<sends, sendRet>>

\* channel_destroy: if (!channel) return;
destroy_null(self) ==
    /\ null_return(self, "destroy", 0)
    /\ UNCHANGED <<sends, sendRet>>

\* Mutant of is_closed_null: a null handle is reported open.
is_closed_null_open(self) ==
    /\ null_return(self, "is_closed", 0)
    /\ UNCHANGED <<sends, sendRet>>

\* channel_is_closed: if (!channel) return 1;
is_closed_null(self) ==
    /\ null_return(self, "is_closed", 1)
    /\ UNCHANGED <<sends, sendRet>>

LifeNext ==
    \/ create_call
    \/ Next
    \/ \E self \in Threads :
          \/ channel_is_closed(self)
          \/ destroy_call(self)
          \/ send_null(self)
          \/ recv_null(self)
          \/ close_null(self)
          \/ destroy_null(self)
          \/ is_closed_null(self)

LifeSpec == LifeInit /\ [][LifeNext]_vars

(* ---- properties ------------------------------------------------------------ *)

Max(a, b) == IF a >= b THEN a ELSE b

NoDuplicates(s) == \A i, j \in 1..Len(s) : i # j => s[i] # s[j]

\* C1 (FIFO per channel): the values receives take out of the channel, in the
\* order in which they take them under the mutex, are a prefix of the values
\* sends deposited, in deposit order; none is duplicated, reordered or invented.
C1_Fifo ==
    /\ IsPrefix(received, deposited)
    /\ NoDuplicates(received)

C1_Witness ==
    /\ Len(received) >= 2
    /\ Len(deposited) >= 3

\* C2 (unbuffered rendezvous): on a capacity-0 channel every send that
\* returned 0 had its value taken by a receive before it returned.
C2_Rendezvous ==
    capacity = 0 =>
        \A r \in sendRet : r[2] = 0 => r[1] \in Range(received)

\* C3 (unbuffered hand-off completes): on a capacity-0 channel, once a receive
\* has taken the value of a send, that send eventually returns 0; and no
\* sender stays parked for ever waiting for the slot while the channel is
\* open and empty.
C3_HandoffCompletes ==
    /\ \A v \in 1..MaxCalls :
          (capacity = 0 /\ v \in Range(received)) ~> (<<v, 0>> \in sendRet)
    /\ \A t \in Threads :
          ~<>[](pc[t] = "send_slot_wait" /\ count = 0 /\ closed = 0)

\* C4 (closed rejects send): a send that takes the mutex once closed is set
\* goes straight to return -1, and neither of its two steps changes the
\* buffer, read_idx, write_idx or count (nor capacity or closed).
C4_ClosedRejectsSend ==
    [][\A t \in Threads :
        /\ (pc[t] = "send_lock" /\ closed # 0 /\ pc'[t] # pc[t]) =>
              (pc'[t] = "send_check_closed" /\ chan' = chan)
        /\ (pc[t] = "send_check_closed" /\ closed # 0 /\ pc'[t] # pc[t]) =>
              /\ pc'[t] = "idle"
              /\ <<value[t], -1>> \in sendRet'
              /\ chan' = chan]_vars

C4_Witness ==
    /\ closed # 0
    /\ count > 0
    /\ \E r \in sendRet : r[2] = -1 /\ r[1] > Len(deposited)

C6_WakeupCompleteness ==
    \A t \in Threads : (closed # 0 /\ pc[t] \in WaitPcs) ~> (pc[t] = "idle")

C6_Witness ==
    /\ closed # 0
    /\ \E t, u \in Threads : t # u /\ Parked(t) /\ Parked(u)

\* Supporting C6, as a state invariant that larger bounds still decide: when
\* closed is set and no thread has a step left to take, no thread is waiting.
C6_NoneWaitingAtRest ==
    (closed # 0 /\ \A t \in Threads : ~ENABLED Progress(t)) =>
        \A t \in Threads : pc[t] \notin WaitPcs

\* C7 (a send that returned -1 never enqueued): the value of a send that
\* returned -1 was never written into the buffer, so no receive returns it.
C7_ClosedSendNotEnqueued ==
    \A r \in sendRet :
        r[2] = -1 => (r[1] \notin Range(deposited) /\ r[1] \notin Range(received))

C7_Witness ==
    /\ capacity > 0
    /\ closed # 0
    /\ \E t \in Threads : pc[t] = "send_buf_closed"
    /\ \E r \in sendRet : r[2] = -1

\* C8 (unbuffered close race loses the value): on a capacity-0 channel, a value
\* that was parked and not yet taken when close set closed is returned by no
\* receive, and its send does not return 0.
C8_CloseRaceLosesValue ==
    capacity = 0 =>
        \A v \in Range(queuedAtClose) :
            v \notin Range(received) /\ <<v, 0>> \notin sendRet

\* C9 (conservation): while the channel is open and the mutex is free, the
\* values deposited are exactly the values received followed by the values
\* queued, and the number queued is count.
C9_Conservation ==
    (mutex = NoThread /\ closed = 0) =>
        /\ Len(Queued) = count
        /\ Len(deposited) = Len(received) + count
        /\ deposited = received \o Queued

C9_Witness ==
    /\ mutex = NoThread
    /\ closed = 0
    /\ count >= 1
    /\ Len(received) >= 2

\* C10 (count bound): 0 <= count <= max(capacity, 1) in every state.
C10_CountBound ==
    /\ 0 <= count
    /\ count <= Max(capacity, 1)

C10_Witness ==
    /\ capacity > 1
    /\ count = capacity
    /\ \E t \in Threads : pc[t] = "send_buf_wait"

\* C11 (ring well-formedness): on a buffered channel, whenever the mutex is
\* free, read_idx and write_idx lie in [0, capacity), (write_idx - read_idx)
\* mod capacity = count mod capacity, and the count entries from read_idx on
\* are the deposited values not yet received, in deposit order.
C11_RingWellFormed ==
    (capacity > 0 /\ mutex = NoThread) =>
        /\ read_idx \in 0..(capacity - 1)
        /\ write_idx \in 0..(capacity - 1)
        /\ (write_idx - read_idx) % capacity = count % capacity
        /\ Len(received) + count = Len(deposited)
        /\ Queued = SubSeq(deposited, Len(received) + 1, Len(deposited))

C11_Witness ==
    /\ capacity > 1
    /\ mutex = NoThread
    /\ count >= 1
    /\ write_idx <= read_idx
    /\ Len(received) >= 1

\* C12 (no enqueue after close): once closed is set, no step increases count,
\* writes a buffer slot or deposits a value.
C12_NoEnqueueAfterClose ==
    [][closed # 0 =>
        /\ count' <= count
        /\ buffer' = buffer
        /\ deposited' = deposited]_vars

C12_Witness ==
    /\ closed # 0
    /\ \E t \in Threads : pc[t] = "send_buf_closed"
    /\ \E u \in Threads : pc[u] = "send_buf_wait"

ClosePcs ==
    {"close_lock", "close_set", "close_broadcast_send", "close_broadcast_recv",
     "close_unlock"}

\* C13 (idempotent close): every step of a close on a channel that is already
\* closed leaves closed, count, read_idx, write_idx, capacity and the buffer
\* as they were.
C13_IdempotentClose ==
    [][\A t \in Threads :
        (closed # 0 /\ pc[t] \in ClosePcs /\ pc'[t] # pc[t]) => chan' = chan]_vars

C13_Witness ==
    /\ closed # 0
    /\ \A t \in Threads : pc[t] = "idle"
    /\ sends = 0
    /\ calls = 2
    /\ ~drained

\* Some channel_is_closed on the Channel has returned non-zero.
SeenClosed == \E u \in Threads : ret[u][1] = "is_closed" /\ ret[u][2] # 0

\* C14 (closed is monotonic and observable): closed never goes back from set
\* to clear and is set only by channel_close; channel_is_closed on a Channel
\* returns the value of closed it read under the mutex, so it returns
\* non-zero only once a close has set closed, and once one call has returned
\* non-zero every later one does.
C14_ClosedMonotonic ==
    [][handle = "ch" =>
        /\ closed # 0 => closed' # 0
        /\ closed' # closed => \E t \in Threads : pc[t] = "close_set"
        /\ \A t \in Threads :
            /\ (pc[t] = "is_closed_read" /\ pc'[t] # pc[t]) =>
                  /\ value'[t] = closed
                  /\ SeenClosed => value'[t] # 0
            /\ (pc[t] = "is_closed_unlock" /\ pc'[t] # pc[t]) =>
                  /\ ret'[t] = <<"is_closed", value[t]>>
                  /\ value[t] # 0 => closed # 0
                  /\ SeenClosed => value[t] # 0]_vars

C14_Witness ==
    /\ handle = "ch"
    /\ \E t, u \in Threads :
          /\ ret[t] = <<"is_closed", 0>>
          /\ ret[u] = <<"is_closed", 1>>
    /\ \E t \in Threads : pc[t] = "is_closed_unlock" /\ value[t] # 0

\* C15 (create fails cleanly): channel_create never returns a non-null handle
\* to a buffered channel whose ring is unallocated (when the ring cannot be
\* obtained it returns the null handle).
C15_CreateFailsCleanly ==
    (handle = "ch" /\ capacity > 0) => buffer # NULL

\* C16 (null-handle sentinels): with a null handle send returns -1, receive
\* returns 0.0, is_closed returns non-zero and close and destroy return
\* nothing; each returns at once, no thread ever blocks or takes the mutex,
\* and no channel field changes.
C16_NullSentinels ==
    /\ [](handle = "null" =>
            /\ \A t \in Threads :
                  /\ pc[t] = "idle"
                  /\ \/ ret[t] \in {<<"none", 0>>, <<"send", -1>>, <<"recv", 0>>,
                                     <<"close", 0>>, <<"destroy", 0>>}
                     \/ (ret[t][1] = "is_closed" /\ ret[t][2] # 0)
            /\ \A r \in sendRet : r[2] = -1
            /\ Cardinality(sendRet) = sends
            /\ mutex = NoThread
            /\ cond_send = {}
            /\ cond_recv = {}
            /\ deposited = << >>
            /\ received = << >>)
    /\ [][handle = "null" => (chan' = chan /\ sync' = sync /\ pc' = pc)]_vars

C16_Witness ==
    /\ handle = "null"
    /\ \E t, u \in Threads :
          /\ ret[t] = <<"is_closed", 1>>
          /\ ret[u] = <<"recv", 0>>
    /\ <<1, -1>> \in sendRet
    /\ calls >= 5

\* C17 (buffered backpressure without lost wakeups): on a buffered channel a
\* send writes to the ring only while count < capacity; and if the channel is
\* never closed and as many receives as sends are issued, every call returns.
C17_Backpressure ==
    /\ [](capacity > 0 =>
            \A t \in Threads :
                pc[t] \in {"send_buf_put", "send_buf_idx", "send_buf_count"} =>
                    count < capacity)
    /\ <>[]((/\ capacity > 0
             /\ closed = 0
             /\ \A t \in Threads : pc[t] \notin ClosePcs
             /\ calls = 2 * sends)
            => \A t \in Threads : pc[t] = "idle")

C17_Witness ==
    /\ capacity > 0
    /\ closed = 0
    /\ calls = 2 * sends
    /\ sends >= 2
    /\ \A t \in Threads : pc[t] = "idle"
    /\ Len(received) = sends

\* C18 (at most one parked value): on an unbuffered channel a sender writes
\* the slot only when count is 0 and every value deposited before it has been
\* taken by a receive.
C18_OneParkedValue ==
    [][\A t \in Threads :
        (pc[t] = "send_handoff_put" /\ pc'[t] # pc[t]) =>
            /\ count = 0
            /\ Len(received) = Len(deposited)]_vars

C18_Witness ==
    /\ capacity = 0
    /\ count = 1
    /\ \E t, u \in Threads :
          /\ pc[t] = "send_handoff_wait"
          /\ pc[u] = "send_slot_wait"

\* The guard of the while loop a waiting thread sits in.
WaitGuard(p) ==
    CASE p = "send_buf_while" -> count >= capacity /\ closed = 0
      [] p = "send_slot_while" -> count > 0 /\ closed = 0
      [] p = "send_handoff_while" -> count > 0 /\ closed = 0
      [] p = "recv_while" -> count = 0 /\ closed = 0

\* C19 (spurious wakeups are harmless): a woken thread does nothing but take
\* the mutex and evaluate its loop guard again, and while the guard holds it
\* goes back into the wait set; neither step changes a channel field or
\* returns.
C19_SpuriousWakeupHarmless ==
    [][\A t \in Threads :
        /\ (pc[t] \in WaitPcs /\ pc'[t] # pc[t]) =>
              /\ pc'[t] = LoopOf(pc[t])
              /\ chan' = chan
              /\ hist' = hist
        /\ (/\ pc[t] \in {LoopOf(w) : w \in WaitPcs}
            /\ WaitGuard(pc[t])
            /\ pc'[t] # pc[t]) =>
              /\ pc'[t] \in WaitPcs
              /\ LoopOf(pc'[t]) = pc[t]
              /\ t \in cond_send' \cup cond_recv'
              /\ chan' = chan
              /\ hist' = hist]_vars

C19_Witness ==
    \E t \in Threads :
        /\ pc[t] = "recv_wait"
        /\ ~Parked(t)
        /\ count = 0
        /\ closed = 0

\* C20 (close changes only the closed flag): no step of a close changes count,
\* read_idx, write_idx, capacity or the buffer, so the queued values are the
\* same after it; the step that sets the flag sets it to CHANNEL_CLOSED.
C20_CloseFrame ==
    [][\A t \in Threads :
        (pc[t] \in ClosePcs /\ pc'[t] # pc[t]) =>
            /\ <<buffer, read_idx, write_idx, count, capacity>>' =
                 <<buffer, read_idx, write_idx, count, capacity>>
            /\ Queued' = Queued
            /\ pc[t] = "close_set" => closed' = CHANNEL_CLOSED
            /\ pc[t] # "close_set" => closed' = closed]_vars

C20_Witness ==
    /\ capacity > 0
    /\ closed # 0
    /\ count = capacity
    /\ queuedAtClose = Queued
    /\ \E t \in Threads : pc[t] = "close_broadcast_send"

====
